---- MODULE Spec2Model ----
(***************************************************************************)
(* Playback engine of the soundboard (src-tauri/src/audio/engine.rs) with  *)
(* the device catalog it reads (audio/manager.rs) and the command layer    *)
(* that feeds it (audio/commands.rs), and the input capture the catalog    *)
(* starts and stops (manager.rs start_input_capture / stop_input_capture). *)
(* Beside them, each with a variable of its own: the loopback mixer built  *)
(* in the capture thread (manager.rs), the streaming decoder               *)
(* (audio/source.rs) and the HotkeyManager (hotkeys.rs).                   *)
(*                                                                         *)
(* Gains are f32 in the source.  They are modelled in fixed point: a gain  *)
(* g is the integer g * FullGain, and an effective sink volume (a product  *)
(* of two gains) is the integer v * FullGain * FullGain.  All values used  *)
(* are dyadic, so the f32 products are exact.                              *)
(***************************************************************************)
EXTENDS Integers, Sequences, FiniteSets, TLC

\* The gain 1.0 in fixed point (halves).
FullGain == 2

\* Capacity the model gives the (unbounded) mpsc command channel where the
\* order of delivery is studied.
MaxQueue == 2

\* Capacity the model gives the channel elsewhere.
MaxPending == 1

Sounds == {"s1", "s2"}
Files == {"good.mp3", "bad.mp3"}
\* Sound gains a command can carry: 0.5 and 1.5 (the command layer passes any f32).
SoundGains == {1, 3}
\* Values handed to set_virtual_volume / set_output_volume: -0.5, 0.5, 1.5.
VolumeInputs == {-1, 1, 3}
\* Option<f32> is a sequence of length at most one; None is << >>.
StartPositions == {<< >>}
\* Start offsets, in seconds, where the playback position is studied.
SeekPositions == {<< >>, <<2>>}
\* Files where the playback position is studied: 10 s, 3 s, and a stream whose
\* track reports no frame count.
PositionFiles == {"good.mp3", "short.mp3", "live.ogg"}

\* How far the model lets the clock run, in seconds.
MaxTime == 4

\* How many capture threads the model lets start_input_capture spawn.
MaxCaptures == 2
\* Channel counts the input and the virtual device can report.
InputChannels == {1, 2, 3}
OutputChannels == {1, 2, 4}
\* input_sample_rate in frames per second, scaled down.
SampleRate == 2
\* The most the capture callback evicts: the 1024 of data.len().min(1024),
\* scaled down.  It keeps the divisibility that matters: 1 and 2 divide it as
\* they divide 1024, 3 divides neither.
DrainChunk == 2
\* 1.0 as a sample value; sample values are multiples of it over 6, so that the
\* averages over 2 and 3 channels are exact.
SampleOne == 6
\* The frames (one value per input channel, later channels cut off) a capture
\* batch is made of where the sample values matter.
FramePatterns == {<<6, -12, 0>>, <<-12, 6, 6>>}
\* Frames in one capture batch and frames asked for by one render callback.
MaxBatchFrames == 3
MaxRenderFrames == 2
\* The ring buffer length beyond which the model stops capturing: where the
\* lengths are examined, and where the sample values are.
MaxRing == 14
MaxMixed == 6

\* Streaming decoder.  Kinds of packet the container can deliver: of the
\* selected track and decoding into a supported buffer ("audio"), of another
\* track ("other"), of the selected track and decoding into a sample format
\* decode_and_buffer does not know ("unsupported"), or failing to decode with a
\* decode error ("corrupt") or an I/O error ("ioerror").
PacketKinds == {"audio", "other", "unsupported", "corrupt", "ioerror"}
\* Packets in a container, frames in a packet of the selected track, frames
\* per second of the track.
MaxPackets == 3
FramesPerPacket == 2
TrackRate == 2
\* Channel counts of the track.
TrackChannels == {1, 2}
\* A start offset p stands for p / PositionUnit seconds.
PositionUnit == 2
StartOffsets == {0, 1, 2, 3}

\* Hotkeys.  Ids of bindings (format!("sound_{}", sound_id) and "global_stop"),
\* and the (key, modifiers) combinations they are bound to and the listener
\* sees pressed.
BindingIds == {"sound_s1", "global_stop"}
KeyCombos == {<<"A", "none">>, <<"A", "ctrl">>}
\* The rdev listener thread and a thread of the command layer.
HotkeyThreads == {"listener", "ui"}

\* Threads of the command layer that call start/stop_input_capture.
Callers == {"t1", "t2"}

VARIABLES
    virtual_device,   \* AudioManager.virtual_device is Some(_)
    output_device,    \* AudioManager.output_device is Some(_)
    input_device,     \* AudioManager.input_device is Some(_)
    virtual_volume,   \* AudioManager.virtual_volume
    output_volume,    \* AudioManager.output_volume
    input_volume,     \* AudioManager.input_volume
    input_capture,    \* AudioManager.input_capture: << >> is None, <<t>> the control of capture thread t
    capture_threads,  \* the capture threads spawned so far, in spawn order
    callers,          \* per calling thread: its position in start/stop_input_capture
    now,              \* the monotonic clock read by Instant::now(), in seconds
    queue,            \* commands in the mpsc channel, oldest first
    worker,           \* "running" | "exited": position of audio_thread_worker
    sound_instances,  \* the worker's HashMap<String, SoundInstance>
    playing,          \* AudioEngine.playing: HashMap<String, (Instant, f32, f32)>
    live,             \* per sound_id: SoundInstance objects built and not yet stopped/dropped
    lastCmd,          \* history: the command the worker handled in its last cycle
    lastStreams,      \* history: outcome of create_stream_and_sink per device in that cycle
    stopped,          \* history: ids whose instance had stop() called in that cycle
    swept,            \* history: ids removed by cleanup_finished_sounds in that cycle
    lastSend,         \* history: state of the channel at the last send_command and what its caller was told
    lastAt,           \* history: the clock when the worker handled lastCmd
    loopback,         \* the streams of a capture thread: channel counts, ring buffer, last callback
    decoder,          \* the SymphoniaAudioSource of the last open, or why there is none
    hotkeys           \* HotkeyManager: bindings, key_map, who holds their mutexes, the calls in progress

vars == <<virtual_device, output_device, input_device, virtual_volume, output_volume,
          input_volume, input_capture, capture_threads, callers, now, queue, worker,
          sound_instances, playing, live, lastCmd, lastStreams, stopped, swept, lastSend,
          lastAt, loopback, decoder, hotkeys>>

deviceVars == <<virtual_device, output_device, input_device>>
volumeVars == <<virtual_volume, output_volume, input_volume>>
catalogVars == <<deviceVars, volumeVars>>
captureVars == <<input_capture, capture_threads, callers>>
engineVars == <<worker, sound_instances, playing, live, lastCmd, lastStreams, stopped, swept,
                lastAt>>
playbackVars == <<volumeVars, now, queue, engineVars, lastSend>>
\* The catalog, the capture control and the engine.
mainVars == <<catalogVars, captureVars, now, queue, engineVars, lastSend>>
\* What the catalog, the capture control and the engine never touch.
sideVars == <<loopback, decoder, hotkeys>>

----------------------------------------------------------------------------
\* Helpers

Max(a, b) == IF a >= b THEN a ELSE b
Min(a, b) == IF a <= b THEN a ELSE b

\* A store of the value as given, without f32::clamp (mutation).
clamp01_absent(v) == v

\* f32::clamp(0.0, 1.0)
clamp01(v) == Max(0, Min(v, FullGain))

\* HashMap::remove / HashMap::insert / HashMap::new
MapRemove(m, k) == [x \in DOMAIN m \ {k} |-> m[x]]
MapInsert(m, k, v) == [x \in DOMAIN m \cup {k} |-> IF x = k THEN v ELSE m[x]]
EmptyMap == [x \in {} |-> 0]

\* engine.rs combine_volume: volume1.max(0.0) * volume2.max(0.0)
combine_volume(volume1, volume2) == Max(volume1, 0) * Max(volume2, 0)

\* Option::unwrap_or
unwrap_or(opt, default) == IF Len(opt) = 0 THEN default ELSE opt[1]

\* Outcome of SymphoniaAudioSource::new for a path: Ok iff the file decodes.
source_result_ok(file_path) == file_path # "bad.mp3"

\* track.codec_params.n_frames of the file over its sample rate: its length in
\* seconds, None when the container does not report a frame count.
n_frames(file_path) ==
    CASE file_path = "good.mp3" -> <<10>>
      [] file_path = "short.mp3" -> <<3>>
      [] OTHER -> << >>

\* SymphoniaAudioSource::total_duration of a source just opened at
\* start_position: (end_ts - current_ts) / sample_rate, None without end_ts.
total_duration(file_path, start_position) ==
    IF Len(n_frames(file_path)) = 0 THEN << >>
    ELSE <<n_frames(file_path)[1] - start_position>>

\* The duration handle_play_command computes: 0.0 when the open failed or the
\* source has no total duration.
duration_of(file_path, start_position) ==
    IF source_result_ok(file_path)
    THEN unwrap_or(total_duration(file_path, start_position), 0)
    ELSE 0

----------------------------------------------------------------------------
\* AudioCommand

PlayCmd(f, s, p, v, l) ==
    [type |-> "Play", file_path |-> f, sound_id |-> s, start_position |-> p,
     sound_volume |-> v, local_only |-> l]
StopCmd(s) == [type |-> "Stop", sound_id |-> s]
StopAllCmd == [type |-> "StopAll"]
UpdateSoundVolumeCmd(s, v) == [type |-> "UpdateSoundVolume", sound_id |-> s, sound_volume |-> v]
UpdateDeviceVolumesCmd == [type |-> "UpdateDeviceVolumes"]
ShutdownCmd == [type |-> "Shutdown"]
NoCmd == [type |-> "None"]

AudioCommand ==
    {PlayCmd(f, s, p, v, l) : f \in Files, s \in Sounds, p \in StartPositions,
                              v \in SoundGains, l \in BOOLEAN}
    \cup {StopCmd(s) : s \in Sounds}
    \cup {StopAllCmd, UpdateDeviceVolumesCmd, ShutdownCmd}
    \cup {UpdateSoundVolumeCmd(s, v) : s \in Sounds, v \in SoundGains}

NoStreams == [virtual |-> FALSE, output |-> FALSE, default |-> FALSE]

----------------------------------------------------------------------------
\* SoundInstance.  A sink is [device, volume, empty]: the device its stream was
\* opened on, the volume last given to Sink::set_volume, and Sink::empty().
\* local_only is a history field (the flag of the Play that built the
\* instance); the struct itself does not keep it.

\* rodio::Sink::try_new: volume 1.0, nothing queued.
NewSink(device) == [device |-> device, volume |-> FullGain * FullGain, empty |-> TRUE]

\* Vec::get(i).unwrap_or(&1.0), with the source's 0-based i being i - 1 here.
device_volume_at(device_volumes, i) ==
    IF i <= Len(device_volumes) THEN device_volumes[i] ELSE FullGain

\* SoundInstance::apply_volume_updates
apply_volume_updates(inst) ==
    [inst EXCEPT !.sinks =
        [i \in 1..Len(inst.sinks) |->
            [inst.sinks[i] EXCEPT !.volume =
                combine_volume(device_volume_at(inst.device_volumes, i), inst.sound_volume)]]]

\* SoundInstance::update_sound_volume storing the gain without reapplying the
\* volumes to the sinks (mutation).
update_sound_volume_stored_only(inst, new_volume) ==
    [inst EXCEPT !.sound_volume = new_volume]

\* SoundInstance::update_sound_volume
update_sound_volume(inst, new_volume) ==
    apply_volume_updates([inst EXCEPT !.sound_volume = new_volume])

\* SoundInstance::update_device_volumes with index 0 and 1 exchanged (mutation).
update_device_volumes_swapped(inst, vv, ov) ==
    LET device_count == Len(inst.device_volumes) IN
    apply_volume_updates([inst EXCEPT !.device_volumes =
        [i \in 1..device_count |->
            IF i = 2 /\ device_count > 1 THEN vv
            ELSE IF i = 1 \/ device_count = 1 THEN ov
            ELSE inst.device_volumes[i]]])

\* SoundInstance::update_device_volumes (source index i is i - 1 here)
update_device_volumes(inst, vv, ov) ==
    LET device_count == Len(inst.device_volumes) IN
    apply_volume_updates([inst EXCEPT !.device_volumes =
        [i \in 1..device_count |->
            IF i = 1 /\ device_count > 1 THEN vv
            ELSE IF i = 2 \/ device_count = 1 THEN ov
            ELSE inst.device_volumes[i]]])

\* SoundInstance::is_finished that wants at least one sink (mutation).
is_finished_with_sinks(inst) ==
    /\ Len(inst.sinks) > 0
    /\ \A i \in 1..Len(inst.sinks) : inst.sinks[i].empty

\* SoundInstance::is_finished: all() over the sinks, true for no sinks.
is_finished(inst) == \A i \in 1..Len(inst.sinks) : inst.sinks[i].empty

\* try_add_device_stream: pushes a sink iff create_stream_and_sink succeeds;
\* its _device_volume parameter is unused.
try_add_device_stream(ok, device, new_sinks) ==
    IF ok THEN Append(new_sinks, NewSink(device)) ELSE new_sinks

\* setup_devices_for_playback: the sinks and device_volumes it returns.
\* streams[d] tells whether create_stream_and_sink succeeds on device d.
setup_devices_for_playback(local_only, streams) ==
    IF local_only
    THEN [sinks |-> try_add_device_stream(streams.default, "default", << >>),
          device_volumes |-> <<FullGain>>]
    ELSE
        LET s1 == IF virtual_device
                  THEN try_add_device_stream(streams.virtual, "virtual", << >>)
                  ELSE << >>
            v1 == IF virtual_device THEN <<virtual_volume>> ELSE << >>
            s2 == IF output_device
                  THEN try_add_device_stream(streams.output, "output", s1)
                  ELSE s1
            v2 == IF output_device THEN Append(v1, output_volume) ELSE v1
        IN  IF Len(s2) = 0
            THEN [sinks |-> try_add_device_stream(streams.default, "default", s2),
                  device_volumes |-> Append(v2, FullGain)]
            ELSE [sinks |-> s2, device_volumes |-> v2]

----------------------------------------------------------------------------
\* The worker's state while it handles one command:
\*   si = sound_instances, pl = the playing map, live, stopped, swept.

\* sound_instances.remove(id) without the stop() (mutation): the object stays live.
take_and_stop_leaky(E, id) ==
    IF id \in DOMAIN E.si
    THEN [E EXCEPT !.si = MapRemove(E.si, id)]
    ELSE E

\* if let Some(instance) = sound_instances.remove(id) { instance.stop(); }
take_and_stop(E, id) ==
    IF id \in DOMAIN E.si
    THEN [E EXCEPT !.si = MapRemove(E.si, id),
                   !.live[id] = @ - 1,
                   !.stopped = @ \cup {id}]
    ELSE E

\* A drain that drops the instances without calling stop() on them (mutation).
drain_without_stop(E) == [E EXCEPT !.si = EmptyMap]

\* for (_id, instance) in sound_instances.drain() { instance.stop(); }
drain_and_stop(E) ==
    [E EXCEPT !.si = EmptyMap,
              !.live = [s \in Sounds |-> IF s \in DOMAIN E.si THEN E.live[s] - 1 ELSE E.live[s]],
              !.stopped = @ \cup DOMAIN E.si]

\* handle_play_command.  The position record is (Instant::now(), duration,
\* used_start_position).
handle_play_command(E, cmd, streams) ==
    LET E1 == take_and_stop(E, cmd.sound_id)
        setup == setup_devices_for_playback(cmd.local_only, streams)
        used_start_position == unwrap_or(cmd.start_position, 0)
        new_sinks == [i \in 1..Len(setup.sinks) |->
                        [setup.sinks[i] EXCEPT
                            !.volume = combine_volume(
                                device_volume_at(setup.device_volumes, i), cmd.sound_volume),
                            !.empty = FALSE]]
        instance == [sinks |-> new_sinks,
                     device_volumes |-> setup.device_volumes,
                     sound_volume |-> cmd.sound_volume,
                     local_only |-> cmd.local_only]
    IN  IF ~source_result_ok(cmd.file_path)
        THEN E1
        ELSE [E1 EXCEPT
                !.si = MapInsert(E1.si, cmd.sound_id, instance),
                !.pl = MapInsert(E1.pl, cmd.sound_id,
                          [start_time |-> now,
                           duration |-> duration_of(cmd.file_path, used_start_position),
                           start_position |-> used_start_position]),
                !.live[cmd.sound_id] = @ + 1]

\* cleanup_finished_sounds: every finished instance leaves the table (and is
\* dropped) and its id leaves the playing map.
cleanup_finished_sounds(E) ==
    LET to_remove == {id \in DOMAIN E.si : is_finished(E.si[id])} IN
    [E EXCEPT !.si = [id \in DOMAIN E.si \ to_remove |-> E.si[id]],
              !.pl = [id \in DOMAIN E.pl \ to_remove |-> E.pl[id]],
              !.live = [s \in Sounds |-> IF s \in to_remove THEN E.live[s] - 1 ELSE E.live[s]],
              !.swept = to_remove]

\* The match on the received command in audio_thread_worker.
handle_command(E, cmd, streams) ==
    CASE cmd.type = "Play" -> handle_play_command(E, cmd, streams)
      [] cmd.type = "Stop" ->
            LET E1 == take_and_stop(E, cmd.sound_id) IN
            [E1 EXCEPT !.pl = MapRemove(E1.pl, cmd.sound_id)]
      [] cmd.type = "StopAll" ->
            [drain_and_stop(E) EXCEPT !.pl = EmptyMap]
      [] cmd.type = "UpdateSoundVolume" ->
            IF cmd.sound_id \in DOMAIN E.si
            THEN [E EXCEPT !.si[cmd.sound_id] = update_sound_volume(@, cmd.sound_volume)]
            ELSE E
      [] cmd.type = "UpdateDeviceVolumes" ->
            [E EXCEPT !.si = [id \in DOMAIN E.si |->
                                update_device_volumes(E.si[id], virtual_volume, output_volume)]]
      [] cmd.type = "Shutdown" ->
            [drain_and_stop(E) EXCEPT !.pl = EmptyMap]

\* A loop that a Play whose decoder open failed also leaves (mutation).
loop_breaks_on_failed_play(cmd) ==
    /\ cmd.type # "Shutdown"
    /\ ~(cmd.type = "Play" /\ ~source_result_ok(cmd.file_path))

\* Whether the worker's loop goes on after the arm of cmd: only the Shutdown
\* arm has a break, and no arm returns or unwinds.
loop_continues(cmd) == cmd.type # "Shutdown"

\* One pass of the worker's loop body on a received command: its match arm,
\* then cleanup_finished_sounds unless the arm was the break of Shutdown.
command_cycle(E, cmd, streams) ==
    LET E1 == handle_command(E, cmd, streams) IN
    IF loop_continues(cmd) THEN cleanup_finished_sounds(E1) ELSE E1

\* The worker's table, the playing map and the live objects as a cycle finds them.
EngineState ==
    [si |-> sound_instances, pl |-> playing, live |-> live, stopped |-> {}, swept |-> {}]

\* commands.rs restart_sound_from_position: the command it sends.
restart_sound_from_position(sound_id, file_path, position, sound_volume, local_only) ==
    PlayCmd(file_path, sound_id, <<position>>, sound_volume, local_only)

\* Receiver::recv taking the newest message instead of the oldest (mutation).
recv_newest(q) == [cmd |-> q[Len(q)], rest |-> SubSeq(q, 1, Len(q) - 1)]

\* Receiver::recv on a non-empty channel: the oldest message, and what stays queued.
recv(q) == [cmd |-> Head(q), rest |-> Tail(q)]

\* What create_stream_and_sink can return during one command: a device's entry
\* is TRUE iff a stream was attempted on it and was constructed.
StreamOutcomes(cmd) ==
    IF cmd.type # "Play" THEN {NoStreams}
    ELSE {st \in [virtual : BOOLEAN, output : BOOLEAN, default : BOOLEAN] :
            /\ st.virtual => (~cmd.local_only /\ virtual_device)
            /\ st.output => (~cmd.local_only /\ output_device)
            /\ st.default => (cmd.local_only \/ ~(st.virtual \/ st.output))}

----------------------------------------------------------------------------
\* Input capture (manager.rs start_input_capture / stop_input_capture)

\* A calling thread outside both functions.  `call` is the function it is in,
\* `pc` its position there, `handle` the capture thread it spawned or joins.
IdleCaller == [pc |-> "idle", call |-> "none", handle |-> 0]

\* The input_capture mutex is held by a caller blocked in handle.join().
capture_lock_free == \A c \in Callers : callers[c].pc # "join"

\* The capture threads that have not returned.
running_captures ==
    {t \in 1..Len(capture_threads) : capture_threads[t].state = "running"}

----------------------------------------------------------------------------
\* Loopback mixer (manager.rs, the streams built inside the capture thread).
\* A sample is [ch, v]: the input channel it was captured on (history, 0 for a
\* zero the render step filled in) and its value.  The composed gain vol is in
\* units of 1/(FullGain * FullGain), a rendered sample in units of
\* 1/(SampleOne * FullGain * FullGain).

Sample(c, value) == [ch |-> c, v |-> value]

\* A capture batch of whole frames: frame after frame, channel after channel.
Interleave(frames, in_ch) ==
    [i \in 1..(Len(frames) * in_ch) |->
        Sample(((i - 1) % in_ch) + 1, frames[((i - 1) \div in_ch) + 1][((i - 1) % in_ch) + 1])]

\* Batches of 1..MaxBatchFrames silent frames.
SilentBatches(in_ch) ==
    {Interleave([f \in 1..k |-> <<0, 0, 0>>], in_ch) : k \in 1..MaxBatchFrames}

\* Batches of one frame with values.
ValueBatches(in_ch) == {Interleave(<<fp>>, in_ch) : fp \in FramePatterns}

\* usize::saturating_sub
saturating_sub(a, b) == IF a > b THEN a - b ELSE 0

\* VecDeque::with_capacity((input_sample_rate as usize) * input_channels * 2)
with_capacity(input_sample_rate, input_channels) == input_sample_rate * input_channels * 2

\* The capacity of a VecDeque after it came to hold len elements: doubled
\* while too small.
RECURSIVE grown(_, _)
grown(capacity, len) == IF len <= capacity THEN capacity ELSE grown(2 * capacity, len)

\* The state of a capture thread that has not built its streams.
NoLoopback ==
    [built |-> FALSE, input_channels |-> 0, output_channels |-> 0, capacity |-> 0,
     buffer |-> << >>, last |-> "none", before |-> << >>, batch |-> 0, drained |-> 0,
     frames |-> 0, data |-> << >>, vol |-> 0, panicked |-> FALSE]

\* The input stream callback on a batch of converted samples:
\*   if buf.len() > buf.capacity().saturating_sub(data.len())
\*      { let drain = data.len().min(1024); buf.drain(..drain); }
\*   for &sample in data { buf.push_back(sample); }
\* drain(..n) with n beyond the length panics, with the mutex held.
input_callback(L, data) ==
    LET buf == L.buffer
        full == Len(buf) > saturating_sub(L.capacity, Len(data))
        drain == IF full THEN Min(Len(data), DrainChunk) ELSE 0
        kept == SubSeq(buf, drain + 1, Len(buf)) \o data
    IN  IF drain > Len(buf)
        THEN [L EXCEPT !.panicked = TRUE, !.last = "capture", !.before = buf,
                       !.batch = Len(data), !.drained = drain]
        ELSE [L EXCEPT !.buffer = kept, !.capacity = grown(L.capacity, Len(kept)),
                       !.last = "capture", !.before = buf, !.batch = Len(data),
                       !.drained = drain]

\* sample * vol without the clamp (mutation)
scale_only(sample, vol) == sample * vol

\* f32::clamp(-1.0, 1.0) of sample * vol
scale_and_clamp(sample, vol) ==
    Max(-(SampleOne * FullGain * FullGain), Min(sample * vol, SampleOne * FullGain * FullGain))

RECURSIVE sum(_)
sum(values) == IF Len(values) = 0 THEN 0 ELSE Head(values) + sum(Tail(values))

\* inputs.iter().take(n)
take(values, n) == SubSeq(values, 1, Min(n, Len(values)))

\* "Gather one input frame": in_ch times pop_front, 0.0 when the buffer is empty.
RECURSIVE gather(_, _)
gather(buffer, in_ch) ==
    IF in_ch = 0 THEN [inputs |-> << >>, buffer |-> buffer]
    ELSE LET first == IF Len(buffer) > 0 THEN Head(buffer).v ELSE 0
             rest == gather(IF Len(buffer) > 0 THEN Tail(buffer) ELSE buffer, in_ch - 1)
         IN  [inputs |-> <<first>> \o rest.inputs, buffer |-> rest.buffer]

\* "Map to output channels" for the output channel of 0-based index c.
map_channel(inputs, c, in_ch, out_ch) ==
    IF in_ch = 0 THEN 0
    ELSE IF in_ch = out_ch THEN inputs[c + 1]
    ELSE IF in_ch = 1 THEN inputs[1]
    ELSE IF out_ch = 1 THEN sum(inputs) \div in_ch
    ELSE IF c < in_ch THEN inputs[c + 1]
    ELSE sum(take(inputs, 2)) \div 2

\* fill_output_from_buffer for a data slice of `frames` whole output frames:
\* the slice as written and the buffer as left.
RECURSIVE fill_output_from_buffer(_, _, _, _, _)
fill_output_from_buffer(frames, buffer, in_ch, out_ch, vol) ==
    IF frames = 0 THEN [data |-> << >>, buffer |-> buffer]
    ELSE LET g == gather(buffer, in_ch)
             frame == [c \in 1..out_ch |->
                          scale_and_clamp(map_channel(g.inputs, c - 1, in_ch, out_ch), vol)]
             rest == fill_output_from_buffer(frames - 1, g.buffer, in_ch, out_ch, vol)
         IN  [data |-> frame \o rest.data, buffer |-> rest.buffer]

\* The gain the output stream callback composes:
\* (input_vol * virt_vol).clamp(0.0, 1.0)
composed_gain == Max(0, Min(input_volume * virtual_volume, FullGain * FullGain))

----------------------------------------------------------------------------
\* Streaming decoder (source.rs).  A media file is [packets, channels,
\* n_frames]: what next_packet delivers in order until it fails with end of
\* file, the channel count and the total frame count of the selected track
\* (<< >> when the container does not tell).  A decoded sample is [frame, ch]:
\* its frame in the track and its channel.

RECURSIVE SeqsUpTo(_, _)
SeqsUpTo(S, n) ==
    IF n = 0 THEN {<< >>}
    ELSE LET shorter == SeqsUpTo(S, n - 1) IN
         shorter \cup {Append(q, x) : q \in shorter, x \in S}

\* Whether a packet belongs to the selected track.
on_track(kind) == kind # "other"

\* Packets of the selected track among the first n.
track_packets(packets, n) == Cardinality({i \in 1..n : i <= Len(packets) /\ on_track(packets[i])})

MediaFiles ==
    {[packets |-> q, channels |-> c, n_frames |-> f] :
        q \in SeqsUpTo(PacketKinds, MaxPackets) \ {<< >>}, c \in TrackChannels,
        f \in {<< >>, <<0>>}}

\* codec_params.n_frames of the file: every packet of the track counts.
frames_of(file) ==
    IF Len(file.n_frames) = 0 THEN << >>
    ELSE <<FramesPerPacket * track_packets(file.packets, Len(file.packets))>>

\* decode_and_buffer on the decoded packet number i of the container: frame
\* after frame, channel after channel.
decode_and_buffer(file, i) ==
    LET first_frame == FramesPerPacket * track_packets(file.packets, i - 1) IN
    [k \in 1..(FramesPerPacket * file.channels) |->
        [frame |-> first_frame + ((k - 1) \div file.channels),
         ch |-> ((k - 1) % file.channels) + 1]]

\* format.seek(Accurate, Time { seconds: start_position as u64, frac: 0.0 }):
\* the container is left at the packet of the track that holds the frame at
\* that whole second; 0 when the time is beyond the track.
format_seek(file, start_position) ==
    LET seconds == start_position \div PositionUnit
        target == seconds * TrackRate
        holding == {i \in 1..Len(file.packets) :
                       /\ on_track(file.packets[i])
                       /\ FramesPerPacket * track_packets(file.packets, i - 1) <= target
                       /\ target < FramesPerPacket * track_packets(file.packets, i)}
    IN  IF holding = {} THEN 0 ELSE CHOOSE i \in holding : TRUE

\* prime_decoder from packet number pos on: the packet it primed on, or 0 when
\* next_packet or decode returned an error first.
RECURSIVE prime_decoder(_, _)
prime_decoder(file, pos) ==
    IF pos > Len(file.packets) THEN 0
    ELSE CASE file.packets[pos] = "audio" -> pos
           [] file.packets[pos] = "other" -> prime_decoder(file, pos + 1)
           [] file.packets[pos] = "unsupported" -> prime_decoder(file, pos + 1)
           [] file.packets[pos] = "corrupt" -> 0
           [] file.packets[pos] = "ioerror" -> 0

NoDecoder ==
    [state |-> "none", file |-> << >>, start_position |-> 0, pos |-> 0,
     sample_buffer |-> << >>, current_ts |-> 0, end_ts |-> << >>,
     yielded |-> << >>]

\* SymphoniaAudioSource::new: Err leaves no source (state "failed").
SymphoniaAudioSource_new(file, start_position) ==
    LET at == IF start_position > 0 THEN format_seek(file, start_position) ELSE 1
        start_ts == (start_position * TrackRate) \div PositionUnit
        primed == IF at = 0 THEN 0 ELSE prime_decoder(file, at)
    IN  IF primed = 0
        THEN [NoDecoder EXCEPT !.state = "failed", !.file = file,
                               !.start_position = start_position]
        ELSE [state |-> "open", file |-> file, start_position |-> start_position,
              pos |-> primed + 1,
              sample_buffer |-> decode_and_buffer(file, primed),
              current_ts |-> start_ts, end_ts |-> frames_of(file),
              yielded |-> << >>]

\* The loop of Iterator::next once the buffer is empty: the source after it, in
\* state "ended" when it returned None.
RECURSIVE refill(_)
refill(D) ==
    IF Len(D.end_ts) = 1 /\ D.current_ts >= D.end_ts[1] THEN [D EXCEPT !.state = "ended"]
    ELSE IF D.pos > Len(D.file.packets) THEN [D EXCEPT !.state = "ended"]
    ELSE CASE D.file.packets[D.pos] = "audio" ->
                LET buffer == decode_and_buffer(D.file, D.pos) IN
                [D EXCEPT !.pos = @ + 1,
                          !.sample_buffer = Tail(buffer),
                          !.current_ts = @ + 1,
                          !.yielded = Append(@, Head(buffer))]
           [] D.file.packets[D.pos] = "other" -> refill([D EXCEPT !.pos = @ + 1])
           [] D.file.packets[D.pos] = "unsupported" -> refill([D EXCEPT !.pos = @ + 1])
           [] D.file.packets[D.pos] = "corrupt" -> [D EXCEPT !.pos = @ + 1, !.state = "ended"]
           [] D.file.packets[D.pos] = "ioerror" -> [D EXCEPT !.pos = @ + 1, !.state = "ended"]

\* Iterator::next: a buffered sample if there is one, else the loop.
SymphoniaAudioSource_next(D) ==
    IF Len(D.sample_buffer) > 0
    THEN [D EXCEPT !.sample_buffer = Tail(@),
                   !.current_ts = @ + 1,
                   !.yielded = Append(@, Head(D.sample_buffer))]
    ELSE refill(D)

----------------------------------------------------------------------------
\* HotkeyManager (hotkeys.rs).  bindings maps an id to the combination of its
\* binding, key_map a combination to an id.  A mutex is "free" or held by a
\* thread.  A thread is [pc, id, combo]: where it is in its call and the
\* arguments of the call.

IdleThread == [pc |-> "idle", id |-> "", combo |-> << >>]

\* HotkeyManager::new
NewHotkeyManager ==
    [bindings |-> EmptyMap, key_map |-> EmptyMap,
     bindings_lock |-> "free", key_map_lock |-> "free",
     threads |-> [t \in HotkeyThreads |-> IdleThread],
     last_sent |-> ""]

\* The mutex a thread is about to lock at its pc, "" when none.
wanted_lock(thread) ==
    CASE thread.pc \in {"add_bindings", "remove_bindings", "update_bindings",
                        "event_bindings"} -> "bindings"
      [] thread.pc \in {"add_key_map", "remove_key_map", "update_key_map_remove",
                        "update_key_map_insert", "event_key_map"} -> "key_map"
      [] OTHER -> ""

\* Who holds a mutex.
lock_holder(H, lock) == IF lock = "bindings" THEN H.bindings_lock ELSE H.key_map_lock

----------------------------------------------------------------------------
\* Initial state: AudioManager::new (gains 1.0, output devices set when the
\* host has them, a host without default input device, no capture),
\* AudioEngine::new (empty channel, empty maps, worker spawned) and
\* HotkeyManager::new; no capture streams built, no decoder opened.
Init ==
    /\ virtual_device \in BOOLEAN
    /\ output_device \in BOOLEAN
    /\ input_device = FALSE
    /\ virtual_volume = FullGain
    /\ output_volume = FullGain
    /\ input_volume = FullGain
    /\ input_capture = << >>
    /\ capture_threads = << >>
    /\ callers = [c \in Callers |-> IdleCaller]
    /\ now = 0
    /\ queue = << >>
    /\ worker = "running"
    /\ sound_instances = EmptyMap
    /\ playing = EmptyMap
    /\ live = [s \in Sounds |-> 0]
    /\ lastCmd = NoCmd
    /\ lastStreams = NoStreams
    /\ stopped = {}
    /\ swept = {}
    /\ lastSend = [channel |-> "none", reported |-> "Ok"]
    /\ lastAt = 0
    /\ loopback = NoLoopback
    /\ decoder = NoDecoder
    /\ hotkeys = NewHotkeyManager

\* AudioManager::set_virtual_device with the name of a present device
set_virtual_device ==
    /\ virtual_device' = TRUE
    /\ UNCHANGED <<sideVars, output_device, input_device, volumeVars, captureVars, now, queue,
                   engineVars, lastSend>>

\* AudioManager::set_output_device with the name of a present device
set_output_device ==
    /\ output_device' = TRUE
    /\ UNCHANGED <<sideVars, virtual_device, input_device, volumeVars, captureVars, now, queue,
                   engineVars, lastSend>>

\* AudioManager::set_input_device with the name of a present device
set_input_device ==
    /\ input_device' = TRUE
    /\ UNCHANGED <<sideVars, virtual_device, output_device, captureVars, playbackVars>>

\* A thread of the command layer enters start_input_capture, whose first
\* statement is the call of stop_input_capture.
start_input_capture_called(c) ==
    /\ callers[c].pc = "idle"
    /\ callers' = [callers EXCEPT ![c] = [pc |-> "lock", call |-> "start", handle |-> 0]]
    /\ UNCHANGED <<sideVars, deviceVars, input_capture, capture_threads, playbackVars>>

\* A thread of the command layer enters stop_input_capture.
stop_input_capture_called(c) ==
    /\ callers[c].pc = "idle"
    /\ callers' = [callers EXCEPT ![c] = [pc |-> "lock", call |-> "stop", handle |-> 0]]
    /\ UNCHANGED <<sideVars, deviceVars, input_capture, capture_threads, playbackVars>>

\* Where a caller goes when stop_input_capture returns: back to the command
\* layer, or on in start_input_capture.
after_stop(caller) ==
    IF caller.call = "start"
    THEN [caller EXCEPT !.pc = "spawn", !.handle = 0]
    ELSE IdleCaller

\* stop_input_capture: the guard is taken; with a stored control the stop flag
\* is set and the caller goes to join the thread, keeping the guard; with
\* None the guard is written None and released.
stop_input_capture_locks(c) ==
    /\ callers[c].pc = "lock"
    /\ capture_lock_free
    /\ IF Len(input_capture) = 1
       THEN /\ capture_threads' =
                  [capture_threads EXCEPT ![input_capture[1]].stop_flag = TRUE]
            /\ callers' = [callers EXCEPT ![c].pc = "join", ![c].handle = input_capture[1]]
            /\ UNCHANGED input_capture
       ELSE /\ callers' = [callers EXCEPT ![c] = after_stop(callers[c])]
            /\ UNCHANGED <<input_capture, capture_threads>>
    /\ UNCHANGED <<sideVars, deviceVars, playbackVars>>

\* stop_input_capture: handle.join() returns once the thread has returned;
\* the guard is written None and released.
stop_input_capture_joins(c) ==
    /\ callers[c].pc = "join"
    /\ capture_threads[callers[c].handle].state = "exited"
    /\ input_capture' = << >>
    /\ callers' = [callers EXCEPT ![c] = after_stop(callers[c])]
    /\ UNCHANGED <<sideVars, deviceVars, capture_threads, playbackVars>>

\* start_input_capture after its stop: Err when the input or the virtual
\* device is not set, else a fresh stop flag and a spawned capture thread.
start_input_capture_spawns(c) ==
    /\ callers[c].pc = "spawn"
    /\ IF input_device /\ virtual_device
       THEN /\ Len(capture_threads) < MaxCaptures
            /\ capture_threads' =
                  Append(capture_threads, [stop_flag |-> FALSE, state |-> "running"])
            /\ callers' = [callers EXCEPT ![c].pc = "store",
                                          ![c].handle = Len(capture_threads) + 1]
       ELSE /\ callers' = [callers EXCEPT ![c] = IdleCaller]
            /\ UNCHANGED capture_threads
    /\ UNCHANGED <<sideVars, deviceVars, input_capture, playbackVars>>

\* start_input_capture: the guard is taken again and the new control stored
\* over whatever is there; a control it replaces is dropped, its stop flag as
\* it was and its JoinHandle detached.
start_input_capture_stores(c) ==
    /\ callers[c].pc = "store"
    /\ capture_lock_free
    /\ input_capture' = <<callers[c].handle>>
    /\ callers' = [callers EXCEPT ![c] = IdleCaller]
    /\ UNCHANGED <<sideVars, deviceVars, capture_threads, playbackVars>>

\* The capture thread sees its stop flag set in its sleep loop and returns.
capture_thread_stops ==
    \E t \in running_captures :
        /\ capture_threads[t].stop_flag
        /\ capture_threads' = [capture_threads EXCEPT ![t].state = "exited"]
        /\ UNCHANGED <<sideVars, deviceVars, input_capture, callers, playbackVars>>

\* The capture thread returns early: a device is not found at runtime or a
\* stream cannot be built or started.
capture_thread_fails ==
    \E t \in running_captures :
        /\ capture_threads' = [capture_threads EXCEPT ![t].state = "exited"]
        /\ UNCHANGED <<sideVars, deviceVars, input_capture, callers, playbackVars>>

\* The capture thread reads the channel counts of its devices and creates the
\* ring buffer its two streams share (manager.rs 207-221).
build_streams ==
    /\ ~loopback.built
    /\ \E in_ch \in InputChannels, out_ch \in OutputChannels :
          loopback' = [NoLoopback EXCEPT
                          !.built = TRUE,
                          !.input_channels = in_ch,
                          !.output_channels = out_ch,
                          !.capacity = with_capacity(SampleRate, in_ch),
                          !.last = "build"]
    /\ UNCHANGED <<mainVars, decoder, hotkeys>>

\* The host delivers a batch of captured samples, one of Batches, to
\* the input stream callback, which runs under the buffer's mutex.  The model
\* takes no batch that would leave more than `limit` samples buffered.
capture_callback(Batches, limit) ==
    /\ loopback.built
    /\ ~loopback.panicked
    /\ \E data \in Batches :
          /\ Len(input_callback(loopback, data).buffer) <= limit
          /\ loopback' = input_callback(loopback, data)
    /\ UNCHANGED <<mainVars, decoder, hotkeys>>

\* The host asks the output stream callback for 1..MaxRenderFrames frames; it
\* reads the two gains and fills the slice under the buffer's mutex.
render_callback ==
    /\ loopback.built
    /\ ~loopback.panicked
    /\ \E frames \in 1..MaxRenderFrames :
          LET r == fill_output_from_buffer(frames, loopback.buffer,
                       loopback.input_channels, loopback.output_channels, composed_gain)
          IN  loopback' = [loopback EXCEPT
                              !.buffer = r.buffer,
                              !.data = r.data,
                              !.last = "render",
                              !.before = loopback.buffer,
                              !.frames = frames,
                              !.vol = composed_gain]
    /\ UNCHANGED <<mainVars, decoder, hotkeys>>

\* handle_play_command opens a decoder on a file at a start offset.  Every
\* Play has a decoder of its own; the model follows one from open to end.
open_source ==
    /\ decoder.state = "none"
    /\ \E file \in MediaFiles, start_position \in StartOffsets :
          decoder' = SymphoniaAudioSource_new(file, start_position)
    /\ UNCHANGED <<mainVars, loopback, hotkeys>>

\* The sink pulls the next sample of the open source; after None the sink
\* drops the source.
pull_sample ==
    /\ decoder.state = "open"
    /\ decoder' = SymphoniaAudioSource_next(decoder)
    /\ UNCHANGED <<mainVars, loopback, hotkeys>>

\* A thread of the command layer calls add_binding, remove_binding or
\* update_binding; the listener thread gets a key press of a non-modifier key
\* with the modifier state it tracked and calls handle_event.
hotkey_call ==
    /\ \E id \in BindingIds, combo \in KeyCombos :
          \/ /\ hotkeys.threads["ui"].pc = "idle"
             /\ \E pc \in {"add_bindings", "remove_bindings", "update_bindings"} :
                   hotkeys' = [hotkeys EXCEPT !.threads["ui"] =
                                  [pc |-> pc, id |-> id, combo |-> combo]]
          \/ /\ hotkeys.threads["listener"].pc = "idle"
             /\ hotkeys' = [hotkeys EXCEPT !.threads["listener"] =
                               [pc |-> "event_key_map", id |-> "", combo |-> combo]]
    /\ UNCHANGED <<mainVars, loopback, decoder>>

\* add_binding_with_persist: self.bindings.lock().unwrap().insert(id, binding);
\* the guard is a temporary, released at the end of the statement.
add_binding_inserts ==
    /\ hotkeys.threads["ui"].pc = "add_bindings"
    /\ hotkeys.bindings_lock = "free"
    /\ LET t == hotkeys.threads["ui"] IN
       hotkeys' = [hotkeys EXCEPT !.bindings = MapInsert(@, t.id, t.combo),
                                  !.threads["ui"].pc = "add_key_map"]
    /\ UNCHANGED <<mainVars, loopback, decoder>>

\* add_binding_with_persist: self.key_map.lock().unwrap().insert((key, modifiers), id)
add_binding_maps ==
    /\ hotkeys.threads["ui"].pc = "add_key_map"
    /\ hotkeys.key_map_lock = "free"
    /\ LET t == hotkeys.threads["ui"] IN
       hotkeys' = [hotkeys EXCEPT !.key_map = MapInsert(@, t.combo, t.id),
                                  !.threads["ui"] = IdleThread]
    /\ UNCHANGED <<mainVars, loopback, decoder>>

\* remove_binding: the bindings guard is taken and kept to the end of the
\* function; bindings.remove(id) is Some or the call returns false.
remove_binding_locks ==
    /\ hotkeys.threads["ui"].pc = "remove_bindings"
    /\ hotkeys.bindings_lock = "free"
    /\ LET t == hotkeys.threads["ui"] IN
       IF t.id \in DOMAIN hotkeys.bindings
       THEN hotkeys' = [hotkeys EXCEPT
                           !.bindings = MapRemove(@, t.id),
                           !.bindings_lock = "ui",
                           !.threads["ui"] = [pc |-> "remove_key_map", id |-> t.id,
                                              combo |-> hotkeys.bindings[t.id]]]
       ELSE hotkeys' = [hotkeys EXCEPT !.threads["ui"] = IdleThread]
    /\ UNCHANGED <<mainVars, loopback, decoder>>

\* remove_binding: self.key_map.lock().unwrap().remove(&(binding.key, binding.modifiers))
\* with the bindings guard held, then both are released.
remove_binding_unmaps ==
    /\ hotkeys.threads["ui"].pc = "remove_key_map"
    /\ hotkeys.key_map_lock = "free"
    /\ LET t == hotkeys.threads["ui"] IN
       hotkeys' = [hotkeys EXCEPT !.key_map = MapRemove(@, t.combo),
                                  !.bindings_lock = "free",
                                  !.threads["ui"] = IdleThread]
    /\ UNCHANGED <<mainVars, loopback, decoder>>

\* update_binding: the bindings guard is taken and kept to the end of the
\* function; bindings.get_mut(id) is Some or the call returns false.
update_binding_locks ==
    /\ hotkeys.threads["ui"].pc = "update_bindings"
    /\ hotkeys.bindings_lock = "free"
    /\ IF hotkeys.threads["ui"].id \in DOMAIN hotkeys.bindings
       THEN hotkeys' = [hotkeys EXCEPT !.bindings_lock = "ui",
                                       !.threads["ui"].pc = "update_key_map_remove"]
       ELSE hotkeys' = [hotkeys EXCEPT !.threads["ui"] = IdleThread]
    /\ UNCHANGED <<mainVars, loopback, decoder>>

\* update_binding: the key_map entry of the old combination is removed and the
\* binding is given the new one.
update_binding_unmaps ==
    /\ hotkeys.threads["ui"].pc = "update_key_map_remove"
    /\ hotkeys.key_map_lock = "free"
    /\ LET t == hotkeys.threads["ui"] IN
       hotkeys' = [hotkeys EXCEPT !.key_map = MapRemove(@, hotkeys.bindings[t.id]),
                                  !.bindings = MapInsert(@, t.id, t.combo),
                                  !.threads["ui"].pc = "update_key_map_insert"]
    /\ UNCHANGED <<mainVars, loopback, decoder>>

\* update_binding: the key_map entry of the new combination is inserted and
\* the bindings guard released.
update_binding_maps ==
    /\ hotkeys.threads["ui"].pc = "update_key_map_insert"
    /\ hotkeys.key_map_lock = "free"
    /\ LET t == hotkeys.threads["ui"] IN
       hotkeys' = [hotkeys EXCEPT !.key_map = MapInsert(@, t.combo, t.id),
                                  !.bindings_lock = "free",
                                  !.threads["ui"] = IdleThread]
    /\ UNCHANGED <<mainVars, loopback, decoder>>

\* handle_event: the key_map guard is taken; without an entry for the pressed
\* combination it is released, else it is kept while the binding is looked up.
handle_event_locks ==
    /\ hotkeys.threads["listener"].pc = "event_key_map"
    /\ hotkeys.key_map_lock = "free"
    /\ LET t == hotkeys.threads["listener"] IN
       IF t.combo \in DOMAIN hotkeys.key_map
       THEN hotkeys' = [hotkeys EXCEPT
                           !.key_map_lock = "listener",
                           !.threads["listener"] =
                               [pc |-> "event_bindings", id |-> hotkeys.key_map[t.combo],
                                combo |-> t.combo]]
       ELSE hotkeys' = [hotkeys EXCEPT !.threads["listener"] = IdleThread]
    /\ UNCHANGED <<mainVars, loopback, decoder>>

\* handle_event: self.bindings.lock().unwrap().get(binding_id) with the key_map
\* guard held; the action of a binding found is sent; both guards are released.
handle_event_sends ==
    /\ hotkeys.threads["listener"].pc = "event_bindings"
    /\ hotkeys.bindings_lock = "free"
    /\ LET t == hotkeys.threads["listener"] IN
       hotkeys' = [hotkeys EXCEPT
                      !.last_sent = IF t.id \in DOMAIN hotkeys.bindings THEN t.id ELSE @,
                      !.key_map_lock = "free",
                      !.threads["listener"] = IdleThread]
    /\ UNCHANGED <<mainVars, loopback, decoder>>

\* AudioManager::set_virtual_volume
set_virtual_volume ==
    \E volume \in VolumeInputs :
        /\ virtual_volume' = clamp01(volume)
        /\ UNCHANGED <<sideVars, deviceVars, output_volume, input_volume, captureVars, now, queue,
                       engineVars, lastSend>>

\* AudioManager::set_output_volume
set_output_volume ==
    \E volume \in VolumeInputs :
        /\ output_volume' = clamp01(volume)
        /\ UNCHANGED <<sideVars, deviceVars, virtual_volume, input_volume, captureVars, now, queue,
                       engineVars, lastSend>>

\* AudioManager::set_input_volume
set_input_volume ==
    \E volume \in VolumeInputs :
        /\ input_volume' = clamp01(volume)
        /\ UNCHANGED <<sideVars, deviceVars, virtual_volume, output_volume, captureVars, now, queue,
                       engineVars, lastSend>>

\* AudioEngine::send_command as the command layer calls it, for the commands of
\* C and a channel the model lets hold `capacity` messages: the Result of
\* Sender::send is discarded and the caller gets Ok(()) either way.  A send on
\* a channel whose Receiver is gone enqueues nothing.
send_command(C, capacity) ==
    \E cmd \in C :
        /\ \/ /\ worker = "running"
              /\ Len(queue) < capacity
              /\ queue' = Append(queue, cmd)
              /\ lastSend' = [channel |-> "open", reported |-> "Ok"]
           \/ /\ worker = "exited"
              /\ queue' = queue
              /\ lastSend' = [channel |-> "closed", reported |-> "Ok"]
        /\ UNCHANGED <<sideVars, catalogVars, captureVars, now, engineVars>>

\* A sink that ends and, if it was the last of its instance, takes the instance
\* out of the table and the playing map by itself (mutation).
SinkDrains_and_removes ==
    \E id \in DOMAIN sound_instances :
        \E i \in 1..Len(sound_instances[id].sinks) :
            LET drained == [sound_instances EXCEPT ![id].sinks[i].empty = TRUE] IN
            /\ ~sound_instances[id].sinks[i].empty
            /\ sound_instances' = IF is_finished(drained[id])
                                  THEN MapRemove(drained, id) ELSE drained
            /\ playing' = IF is_finished(drained[id])
                          THEN MapRemove(playing, id) ELSE playing
            /\ UNCHANGED <<sideVars, catalogVars, captureVars, now, queue, worker, live,
                           lastCmd, lastStreams, stopped, swept, lastSend, lastAt>>

\* A sink plays its queued source to the end (decoder end-of-stream, buffer drained).
SinkDrains ==
    \E id \in DOMAIN sound_instances :
        \E i \in 1..Len(sound_instances[id].sinks) :
            /\ ~sound_instances[id].sinks[i].empty
            /\ sound_instances' = [sound_instances EXCEPT ![id].sinks[i].empty = TRUE]
            /\ UNCHANGED <<sideVars, catalogVars, captureVars, now, queue, worker, playing, live,
                           lastCmd, lastStreams, stopped, swept, lastSend, lastAt>>

\* One iteration of the loop of audio_thread_worker: recv, the handler of the
\* command, then cleanup_finished_sounds (skipped by the break on Shutdown,
\* which also drops the Receiver and whatever is still queued).
audio_thread_worker ==
    /\ worker = "running"
    /\ queue # << >>
    /\ LET r == recv(queue) IN
       \E streams \in StreamOutcomes(r.cmd) :
         LET E2 == command_cycle(EngineState, r.cmd, streams)
         IN /\ sound_instances' = E2.si
            /\ playing' = E2.pl
            /\ live' = E2.live
            /\ stopped' = E2.stopped
            /\ swept' = E2.swept
            /\ lastCmd' = r.cmd
            /\ lastStreams' = streams
            /\ lastAt' = now
            /\ worker' = IF loop_continues(r.cmd) THEN "running" ELSE "exited"
            /\ queue' = IF loop_continues(r.cmd) THEN r.rest ELSE << >>
    /\ UNCHANGED <<sideVars, catalogVars, captureVars, now, lastSend>>

\* The monotonic clock advances by a second.
Tick ==
    /\ now < MaxTime
    /\ now' = now + 1
    /\ UNCHANGED <<sideVars, catalogVars, captureVars, queue, engineVars, lastSend>>

\* AudioEngine::get_playback_position with start_time.elapsed() = now - start_time;
\* the start offset is dropped from the result (mutation).
get_playback_position_without_offset(sound_id) ==
    IF sound_id \in DOMAIN playing
    THEN LET elapsed == now - playing[sound_id].start_time IN
         IF elapsed < playing[sound_id].duration \/ playing[sound_id].duration = 0
         THEN <<elapsed>>
         ELSE << >>
    ELSE << >>

\* AudioEngine::get_playback_position
get_playback_position(sound_id) ==
    IF sound_id \in DOMAIN playing
    THEN LET elapsed == now - playing[sound_id].start_time IN
         IF elapsed < playing[sound_id].duration \/ playing[sound_id].duration = 0
         THEN <<playing[sound_id].start_position + elapsed>>
         ELSE << >>
    ELSE << >>

----------------------------------------------------------------------------
\* Specifications.  They share the actions and differ in the commands the
\* senders issue, in whether the catalog gains are changed, the clock runs or
\* the sinks end by themselves, and in the depth of the channel.  The mixer,
\* the decoder and the hotkeys have specifications of their own.

\* Lifecycle: every kind of command, both files, both sounds, one sound gain.
LifecycleCommands ==
    {PlayCmd(f, s, << >>, 1, FALSE) : f \in Files, s \in Sounds}
    \cup {StopCmd(s) : s \in Sounds}
    \cup {StopAllCmd, UpdateDeviceVolumesCmd, ShutdownCmd}
    \cup {UpdateSoundVolumeCmd(s, 1) : s \in Sounds}

Next ==
    \/ set_virtual_device
    \/ set_output_device
    \/ send_command(LifecycleCommands, MaxPending)
    \/ SinkDrains
    \/ audio_thread_worker

Spec == Init /\ [][Next]_vars

\* Volumes: one sound, decodable file, every sound gain, local and routed
\* playback, and the catalog gains changing; the sound does not end by itself.
VolumeCommands ==
    {PlayCmd("good.mp3", "s1", << >>, v, l) : v \in SoundGains, l \in BOOLEAN}
    \cup {UpdateSoundVolumeCmd("s1", v) : v \in SoundGains}
    \cup {UpdateDeviceVolumesCmd}

NextVolume ==
    \/ set_virtual_device
    \/ set_output_device
    \/ set_virtual_volume
    \/ set_output_volume
    \/ send_command(VolumeCommands, MaxPending)
    \/ audio_thread_worker

SpecVolume == Init /\ [][NextVolume]_vars

\* Order: a channel MaxQueue deep fed by any number of senders.
OrderCommands ==
    {PlayCmd("good.mp3", s, << >>, 1, FALSE) : s \in Sounds}
    \cup {StopCmd(s) : s \in Sounds}
    \cup {ShutdownCmd}

NextOrder ==
    \/ send_command(OrderCommands, MaxQueue)
    \/ SinkDrains
    \/ audio_thread_worker

SpecOrder == Init /\ [][NextOrder]_vars

\* Instances: the commands that create and remove instances, for both sounds
\* and a decodable and an undecodable file, the sinks ending by themselves.
InstanceCommands ==
    {PlayCmd(f, s, << >>, 1, FALSE) : f \in Files, s \in Sounds}
    \cup {StopCmd(s) : s \in Sounds}
    \cup {StopAllCmd, ShutdownCmd}

NextInstances ==
    \/ send_command(InstanceCommands, MaxPending)
    \/ SinkDrains
    \/ audio_thread_worker

SpecInstances == Init /\ [][NextInstances]_vars

\* Position: one sound started at an offset or from the beginning, of files
\* of known and unknown length, while the clock runs; the sinks keep playing.
PositionCommands ==
    {PlayCmd(f, "s1", p, 1, FALSE) : f \in PositionFiles, p \in SeekPositions}
    \cup {StopCmd("s1")}

NextPosition ==
    \/ send_command(PositionCommands, MaxPending)
    \/ Tick
    \/ audio_thread_worker

SpecPosition == Init /\ [][NextPosition]_vars

\* Progress: Plays of one sound from a decodable and an undecodable file and
\* Shutdown, on a channel MaxQueue deep; the sinks keep playing.  The worker thread blocks in recv only while the channel is
\* empty and nothing else can hold it up, so a cycle that stays possible is
\* taken: weak fairness of audio_thread_worker.
LiveCommands ==
    {PlayCmd(f, "s1", << >>, 1, FALSE) : f \in Files}
    \cup {ShutdownCmd}

NextLive ==
    \/ send_command(LiveCommands, MaxQueue)
    \/ audio_thread_worker

SpecLive == Init /\ [][NextLive]_vars /\ WF_vars(audio_thread_worker)

\* Sound gain: two sounds of a decodable file played at one sound gain and
\* regained at every sound gain, their sinks ending by themselves; the catalog
\* is left alone.
SoundGainCommands ==
    {PlayCmd("good.mp3", s, << >>, 1, FALSE) : s \in Sounds}
    \cup {UpdateSoundVolumeCmd(s, v) : s \in Sounds, v \in SoundGains}

NextSoundGain ==
    \/ send_command(SoundGainCommands, MaxPending)
    \/ SinkDrains
    \/ audio_thread_worker

SpecSoundGain == Init /\ [][NextSoundGain]_vars

\* Catalog gains: the three gains written in any order while a sound is
\* played and UpdateDeviceVolumes is sent; the sinks keep playing.
CatalogCommands ==
    {PlayCmd("good.mp3", "s1", << >>, 1, FALSE), UpdateDeviceVolumesCmd}

NextCatalog ==
    \/ set_virtual_volume
    \/ set_output_volume
    \/ set_input_volume
    \/ send_command(CatalogCommands, MaxPending)
    \/ audio_thread_worker

SpecCatalog == Init /\ [][NextCatalog]_vars

\* Capture: threads of the command layer calling start_input_capture and
\* stop_input_capture in any interleaving.
NextCapture ==
    \/ set_input_device
    \/ set_virtual_device
    \/ \E c \in Callers :
          \/ start_input_capture_called(c)
          \/ stop_input_capture_called(c)
          \/ stop_input_capture_locks(c)
          \/ stop_input_capture_joins(c)
          \/ start_input_capture_spawns(c)
          \/ start_input_capture_stores(c)
    \/ capture_thread_stops
    \/ capture_thread_fails

SpecCapture == Init /\ [][NextCapture]_vars

\* Ring buffer: capture batches of one to MaxBatchFrames silent frames against
\* a render side that runs at any pace or not at all, for every channel count.
NextRing ==
    \/ build_streams
    \/ capture_callback(SilentBatches(loopback.input_channels), MaxRing)
    \/ render_callback

SpecRing == Init /\ [][NextRing]_vars

\* Mixing: capture batches of one frame with values, rendered at every channel
\* mapping while the input gain changes.
NextMixer ==
    \/ build_streams
    \/ set_input_volume
    \/ capture_callback(ValueBatches(loopback.input_channels), MaxMixed)
    \/ render_callback

SpecMixer == Init /\ [][NextMixer]_vars

\* Decoding: files of up to MaxPackets packets of every kind opened at every
\* start offset and pulled to their end.
NextDecoder ==
    \/ open_source
    \/ pull_sample

SpecDecoder == Init /\ [][NextDecoder]_vars

\* Hotkeys: a thread of the command layer adding, removing and updating
\* bindings while the listener thread handles key presses.
NextHotkeys ==
    \/ hotkey_call
    \/ add_binding_inserts
    \/ add_binding_maps
    \/ remove_binding_locks
    \/ remove_binding_unmaps
    \/ update_binding_locks
    \/ update_binding_unmaps
    \/ update_binding_maps
    \/ handle_event_locks
    \/ handle_event_sends

SpecHotkeys == Init /\ [][NextHotkeys]_vars

----------------------------------------------------------------------------
\* Properties

\* A step of audio_thread_worker: the only action that shortens the channel.
\* The command it handled is lastCmd'.
WorkerStepped == Len(queue') < Len(queue)

\* AudioEngine::get_playing_sounds
get_playing_sounds == DOMAIN playing

\* C1: after every command cycle the ids with a position record (what
\* get_playing_sounds returns) are exactly the ids with a live instance.
C1_RecordsMatchInstances == get_playing_sounds = DOMAIN sound_instances

\* C2: every sound_id has at most one live instance, namely the one in the
\* table; an instance that was replaced or removed is no longer live.
C2_AtMostOneLiveInstance ==
    \A s \in Sounds :
        /\ live[s] <= 1
        /\ live[s] = 1 <=> s \in DOMAIN sound_instances

\* C2 witness: a Play replaced the running instance of its id.
C2_Witness ==
    /\ lastCmd.type = "Play"
    /\ lastCmd.sound_id \in stopped
    /\ lastCmd.sound_id \in DOMAIN sound_instances

\* C3: after a Play whose decoder open fails there is neither an instance nor a
\* position record for its id, and every Play of a decodable file that got a
\* stream has its instance and its record.
C3_FailedPlayLeavesNothing ==
    lastCmd.type = "Play" =>
        IF ~source_result_ok(lastCmd.file_path)
        THEN /\ lastCmd.sound_id \notin DOMAIN sound_instances
             /\ lastCmd.sound_id \notin DOMAIN playing
        ELSE (lastStreams.virtual \/ lastStreams.output \/ lastStreams.default) =>
                /\ lastCmd.sound_id \in DOMAIN sound_instances
                /\ lastCmd.sound_id \in DOMAIN playing

\* C4: the worker handles the oldest queued command and leaves the others
\* queued in their order, a send appends behind what is queued, and once a
\* Stop has been handled its id has neither an instance nor a position record.
C4_AppliedInEnqueueOrder ==
    [][/\ WorkerStepped =>
            /\ lastCmd' = Head(queue)
            /\ worker' = "running" => queue' = Tail(queue)
            /\ lastCmd'.type = "Stop" =>
                    /\ lastCmd'.sound_id \notin DOMAIN sound_instances'
                    /\ lastCmd'.sound_id \notin DOMAIN playing'
       /\ Len(queue') > Len(queue) =>
            /\ Len(queue') = Len(queue) + 1
            /\ SubSeq(queue', 1, Len(queue)) = queue
      ]_vars

\* C4 witness: a Stop stopped the instance an earlier Play had created, while
\* a later command was waiting behind it.
C4_Witness ==
    /\ lastCmd.type = "Stop"
    /\ lastCmd.sound_id \in stopped
    /\ Len(queue) >= 1

\* C5: an instance that is finished when a command is handled has left the
\* table and the position map after that cycle (unless that command was a Play
\* that started its id again); an instance with a non-empty sink that the
\* command does not stop or replace stays in both.
C5_FinishedSweptByNextCycle ==
    [][WorkerStepped =>
        \A id \in DOMAIN sound_instances :
            IF is_finished(sound_instances[id])
            THEN \/ /\ id \notin DOMAIN sound_instances'
                    /\ id \notin DOMAIN playing'
                 \/ /\ lastCmd' = Head(queue)
                    /\ lastCmd'.type = "Play"
                    /\ lastCmd'.sound_id = id
                    /\ source_result_ok(lastCmd'.file_path)
            ELSE \/ lastCmd'.type \in {"StopAll", "Shutdown"}
                 \/ lastCmd'.type \in {"Play", "Stop"} /\ lastCmd'.sound_id = id
                 \/ /\ id \in DOMAIN sound_instances'
                    /\ id \in DOMAIN playing'
      ]_vars

\* C6: the volume set on every sink is clamp(device gain) x clamp(sound gain)
\* and so at most 1.0.
C6_EffectiveVolumeClamped ==
    \A id \in DOMAIN sound_instances :
        LET inst == sound_instances[id] IN
        \A i \in 1..Len(inst.sinks) :
            /\ inst.sinks[i].volume =
                  clamp01(device_volume_at(inst.device_volumes, i)) * clamp01(inst.sound_volume)
            /\ inst.sinks[i].volume <= FullGain * FullGain

\* C7: an instance built by a local_only Play has one sink, whose device gain
\* is 1.0 and whose volume is the sound gain.
C7_LocalOnlySingleSinkFullGain ==
    \A id \in DOMAIN sound_instances :
        LET inst == sound_instances[id] IN
        inst.local_only =>
            /\ Len(inst.sinks) = 1
            /\ device_volume_at(inst.device_volumes, 1) = FullGain
            /\ inst.sinks[1].volume = FullGain * inst.sound_volume

\* C8: after a non-local Play where neither the virtual nor the output device
\* gave a sink and the default device did, the instance has one sink, on the
\* default device, at device gain 1.0.
C8_FallbackSinkFullGain ==
    [][(/\ WorkerStepped
        /\ lastCmd'.type = "Play"
        /\ ~lastCmd'.local_only
        /\ source_result_ok(lastCmd'.file_path)
        /\ ~lastStreams'.virtual /\ ~lastStreams'.output /\ lastStreams'.default)
       =>
       /\ lastCmd'.sound_id \in DOMAIN sound_instances'
       /\ LET inst == sound_instances'[lastCmd'.sound_id] IN
            /\ Len(inst.sinks) = 1
            /\ inst.sinks[1].device = "default"
            /\ device_volume_at(inst.device_volumes, 1) = FullGain
            /\ inst.sinks[1].volume = FullGain * lastCmd'.sound_volume
      ]_vars

\* C9: a Play with both devices selected and both streams built makes sink 0 on
\* the virtual device at virtual gain x sound gain and sink 1 on the output
\* device at output gain x sound gain; after UpdateDeviceVolumes every two-sink
\* instance has sink 0 at the catalog's virtual gain and sink 1 at its output
\* gain, and a sink whose gain did not change keeps its volume.
C9_TwoSinksTrackTheirGains ==
    [][WorkerStepped =>
        /\ (/\ lastCmd'.type = "Play"
            /\ lastStreams'.virtual /\ lastStreams'.output) =>
                /\ lastCmd'.sound_id \in DOMAIN sound_instances'
                /\ LET inst == sound_instances'[lastCmd'.sound_id] IN
                    /\ Len(inst.sinks) = 2
                    /\ inst.sinks[1].device = "virtual"
                    /\ inst.sinks[2].device = "output"
                    /\ inst.sinks[1].volume = virtual_volume * lastCmd'.sound_volume
                    /\ inst.sinks[2].volume = output_volume * lastCmd'.sound_volume
        /\ lastCmd'.type = "UpdateDeviceVolumes" =>
                \A id \in DOMAIN sound_instances \cap DOMAIN sound_instances' :
                    LET old == sound_instances[id]
                        new == sound_instances'[id]
                    IN Len(old.sinks) = 2 =>
                        /\ Len(new.sinks) = 2
                        /\ new.sinks[1].volume = virtual_volume * old.sound_volume
                        /\ new.sinks[2].volume = output_volume * old.sound_volume
                        /\ old.device_volumes[1] = virtual_volume =>
                                new.sinks[1].volume = old.sinks[1].volume
                        /\ old.device_volumes[2] = output_volume =>
                                new.sinks[2].volume = old.sinks[2].volume
      ]_vars

\* C9 witness: UpdateDeviceVolumes was handled for a two-sink instance after
\* the virtual gain alone had been changed.
C9_Witness ==
    /\ lastCmd.type = "UpdateDeviceVolumes"
    /\ "s1" \in DOMAIN sound_instances
    /\ Len(sound_instances["s1"].sinks) = 2
    /\ sound_instances["s1"].device_volumes = <<1, FullGain>>
    /\ sound_instances["s1"].sinks[1].volume = 1 * sound_instances["s1"].sound_volume
    /\ sound_instances["s1"].sinks[2].volume = FullGain * sound_instances["s1"].sound_volume

\* C10: a send on the closed channel is reported to its caller as a failure.
C10_ClosedChannelReported ==
    lastSend.channel = "closed" => lastSend.reported = "EngineGone"

\* The ids cleanup_finished_sounds removes when run on the current table.
finished_now == {id \in DOMAIN sound_instances : is_finished(sound_instances[id])}

\* C11: a Stop for an id that has no instance, and a command sent after the
\* worker has left on a first Shutdown, report no error and leave the instance
\* table and the position map as they were (for the Stop: up to the sweep of
\* finished instances that ends every cycle).
C11_AbsentStopSecondShutdownNoChange ==
    [][/\ (/\ WorkerStepped
           /\ lastCmd'.type = "Stop"
           /\ lastCmd'.sound_id \notin DOMAIN sound_instances)
          =>
          /\ sound_instances' =
                [id \in DOMAIN sound_instances \ finished_now |-> sound_instances[id]]
          /\ playing' = [id \in DOMAIN playing \ finished_now |-> playing[id]]
       /\ worker = "exited" =>
          /\ sound_instances' = sound_instances
          /\ playing' = playing
          /\ lastSend'.reported = "Ok"
      ]_vars

\* C12: the cycle of a StopAll, from any state, leaves the instance table and
\* the position map empty and has called stop() on every instance that was in
\* the table, so that no instance object is live.
C12_StopAllStopsEverything ==
    [][(WorkerStepped /\ lastCmd'.type = "StopAll") =>
          /\ DOMAIN sound_instances' = {}
          /\ DOMAIN playing' = {}
          /\ stopped' = DOMAIN sound_instances
          /\ \A s \in Sounds : live'[s] = 0
      ]_vars

\* C12 witness: a StopAll stopped two playing instances.
C12_Witness ==
    /\ lastCmd.type = "StopAll"
    /\ stopped = Sounds
    /\ DOMAIN sound_instances = {}

\* C13: get_playback_position(id) is None for an id without position record;
\* while the record of the last handled Play is in the map it is the start
\* offset the Play carried plus the time elapsed since the Play was handled,
\* for every elapsed time below the recorded duration and for every elapsed
\* time when the file reports no length.
C13_PositionIsOffsetPlusElapsed ==
    /\ \A id \in Sounds :
          id \notin DOMAIN playing => get_playback_position(id) = << >>
    /\ (/\ lastCmd.type = "Play"
        /\ lastCmd.sound_id \in DOMAIN playing
        /\ source_result_ok(lastCmd.file_path))
       =>
       LET elapsed == now - lastAt
           o == unwrap_or(lastCmd.start_position, 0)
       IN  (\/ elapsed < playing[lastCmd.sound_id].duration
            \/ Len(n_frames(lastCmd.file_path)) = 0)
           => get_playback_position(lastCmd.sound_id) = <<o + elapsed>>

\* C13 witness: a Play at offset 2 was handled 3 seconds ago and the position
\* reads 5.
C13_Witness ==
    /\ lastCmd.type = "Play"
    /\ lastCmd.start_position = <<2>>
    /\ now - lastAt = 3
    /\ get_playback_position(lastCmd.sound_id) = <<5>>

\* C14: from every engine state, for a decodable and an undecodable file and
\* every outcome of the device streams, the cycle of the command a seek sends
\* and the cycles of Stop then Play at the new offset leave the same instance
\* table and position records for the same ids.
C14_SeekIsStopThenPlay ==
    \A id \in Sounds, f \in Files, l \in BOOLEAN :
        LET seek == restart_sound_from_position(id, f, 2, 1, l) IN
        \A streams \in StreamOutcomes(seek) :
            LET sought == command_cycle(EngineState, seek, streams)
                stopped_first == command_cycle(EngineState, StopCmd(id), NoStreams)
                replayed == command_cycle([stopped_first EXCEPT !.stopped = {}, !.swept = {}],
                                          PlayCmd(f, id, <<2>>, 1, l), streams)
            IN  /\ sought.si = replayed.si
                /\ DOMAIN sought.pl = DOMAIN replayed.pl

\* cmd is queued with no Shutdown queued before it.
QueuedBeforeShutdown(cmd) ==
    \E i \in 1..Len(queue) :
        /\ queue[i] = cmd
        /\ \A j \in 1..(i - 1) : queue[j].type # "Shutdown"

\* C15: the worker leaves its loop only in the cycle of a Shutdown, and every
\* command queued with no Shutdown before it is eventually handled, whatever
\* Plays with a failing decoder open or failing device streams are handled
\* before it.
C15_FailuresDoNotStopWorker ==
    /\ [][(worker = "running" /\ worker' = "exited") => lastCmd'.type = "Shutdown"]_vars
    /\ \A cmd \in LiveCommands : QueuedBeforeShutdown(cmd) ~> (lastCmd = cmd)

\* C15 witness: a Play whose decoder open failed has been handled, the worker
\* is running and the next command is waiting.
C15_Witness ==
    /\ lastCmd.type = "Play"
    /\ ~source_result_ok(lastCmd.file_path)
    /\ worker = "running"
    /\ queue # << >>

\* C16: after a non-local Play with a virtual and an output device selected
\* where exactly one of the two streams was built, the instance has one sink,
\* on the device whose stream was built, at the volume of that device's gain
\* times the sound gain.
C16_SurvivingSinkOwnGain ==
    [][(/\ WorkerStepped
        /\ lastCmd'.type = "Play"
        /\ ~lastCmd'.local_only
        /\ source_result_ok(lastCmd'.file_path)
        /\ virtual_device /\ output_device
        /\ lastStreams'.virtual # lastStreams'.output)
       =>
       /\ lastCmd'.sound_id \in DOMAIN sound_instances'
       /\ LET inst == sound_instances'[lastCmd'.sound_id] IN
            /\ Len(inst.sinks) = 1
            /\ IF lastStreams'.output
               THEN /\ inst.sinks[1].device = "output"
                    /\ inst.sinks[1].volume = output_volume * lastCmd'.sound_volume
               ELSE /\ inst.sinks[1].device = "virtual"
                    /\ inst.sinks[1].volume = virtual_volume * lastCmd'.sound_volume
      ]_vars

\* C17: after the cycle of an UpdateDeviceVolumes every instance with exactly
\* one sink has the catalog's output gain as that sink's device gain, and the
\* sink's volume is the output gain times the sound gain.
C17_SingleSinkTracksOutputGain ==
    [][(WorkerStepped /\ lastCmd'.type = "UpdateDeviceVolumes") =>
          \A id \in DOMAIN sound_instances' :
              LET inst == sound_instances'[id] IN
              Len(inst.sinks) = 1 =>
                  /\ device_volume_at(inst.device_volumes, 1) = output_volume
                  /\ inst.sinks[1].volume = output_volume * inst.sound_volume
      ]_vars

StoredGainsClamped ==
    \A g \in {virtual_volume, output_volume, input_volume} : 0 <= g /\ g <= FullGain

\* The device gains of an instance and the volumes set on its sinks.
sink_gains(inst) ==
    [device_volumes |-> inst.device_volumes,
     volumes |-> [i \in 1..Len(inst.sinks) |-> inst.sinks[i].volume]]

\* C19: every stored catalog gain is within [0.0, 1.0] in every state; a step
\* that writes a catalog gain writes one gain and changes no device selection,
\* instance, position record or queued command; the device gains and sink
\* volumes of an instance change only in the cycle of an UpdateDeviceVolumes
\* (or of a Play that replaces the instance); and after the cycle of an
\* UpdateDeviceVolumes the device gains of every instance are the gains the
\* catalog holds and every sink is at its device gain x sound gain.
C19_CatalogGainsClampedDeferred ==
    /\ []StoredGainsClamped
    /\ [][/\ volumeVars' # volumeVars =>
             /\ deviceVars' = deviceVars
             /\ sound_instances' = sound_instances
             /\ playing' = playing
             /\ queue' = queue
             /\ \/ virtual_volume' = virtual_volume /\ output_volume' = output_volume
                \/ virtual_volume' = virtual_volume /\ input_volume' = input_volume
                \/ output_volume' = output_volume /\ input_volume' = input_volume
          /\ \A id \in DOMAIN sound_instances \cap DOMAIN sound_instances' :
                sink_gains(sound_instances'[id]) # sink_gains(sound_instances[id]) =>
                   /\ WorkerStepped
                   /\ \/ lastCmd'.type = "UpdateDeviceVolumes"
                      \/ lastCmd'.type = "Play" /\ lastCmd'.sound_id = id
          /\ (WorkerStepped /\ lastCmd'.type = "UpdateDeviceVolumes") =>
                \A id \in DOMAIN sound_instances' :
                   LET old == sound_instances[id]
                       new == sound_instances'[id]
                       count == Len(new.device_volumes)
                   IN  /\ count = Len(old.device_volumes)
                       /\ count = 1 => new.device_volumes[1] = output_volume
                       /\ count >= 2 => /\ new.device_volumes[1] = virtual_volume
                                        /\ new.device_volumes[2] = output_volume
                       /\ \A i \in 3..count : new.device_volumes[i] = old.device_volumes[i]
                       /\ \A i \in 1..Len(new.sinks) :
                             new.sinks[i].volume =
                                device_volume_at(new.device_volumes, i) * new.sound_volume
         ]_vars

\* C19 witness: after writes to the three gains an UpdateDeviceVolumes brought
\* a two-sink instance to the virtual gain 0.5 and the output gain 0.0.
C19_Witness ==
    /\ lastCmd.type = "UpdateDeviceVolumes"
    /\ virtual_volume = 1 /\ output_volume = 0 /\ input_volume = 0
    /\ "s1" \in DOMAIN sound_instances
    /\ Len(sound_instances["s1"].sinks) = 2
    /\ sound_instances["s1"].device_volumes = <<1, 0>>
    /\ sound_instances["s1"].sinks[1].volume = 1
    /\ sound_instances["s1"].sinks[2].volume = 0

\* C20: at most one capture thread is running at any time, and whenever no
\* call of start_input_capture or stop_input_capture is under way every
\* running capture thread is the one the stored control refers to (so none is
\* running once a stop has cleared the control).
C20_OneCaptureUnderControl ==
    /\ Cardinality(running_captures) <= 1
    /\ (\A c \in Callers : callers[c].pc = "idle") =>
          \A t \in running_captures : input_capture = <<t>>

\* C26: when the decoder of a Play opens but no device stream at all is
\* constructed (configured devices and default fallback all fail), the
\* instance without sinks counts as finished and the sweep of that same cycle
\* removes it: the sound_id has neither an instance nor a position record.
C26_ZeroSinkPlayLeavesNothing ==
    (/\ lastCmd.type = "Play"
     /\ source_result_ok(lastCmd.file_path)
     /\ lastStreams = NoStreams)
    => /\ lastCmd.sound_id \notin DOMAIN sound_instances
       /\ lastCmd.sound_id \notin DOMAIN playing

\* A Play of a decodable file on which every stream failed was handled and its
\* instance was swept in that cycle.
C26_Witness ==
    /\ lastCmd.type = "Play"
    /\ source_result_ok(lastCmd.file_path)
    /\ lastStreams = NoStreams
    /\ lastCmd.sound_id \in swept

\* C27: the ids of the instance table and the position map change only in a
\* step of the worker that handles a command; get_playing_sounds and
\* get_playback_position read the map without writing it.  An instance whose
\* sinks have all drained stays in the table, and its id in the result of
\* get_playing_sounds, through every step that is not a worker cycle.
C27_TablesChangeOnlyInWorkerStep ==
    [][/\ (DOMAIN sound_instances' # DOMAIN sound_instances \/ playing' # playing)
          => WorkerStepped
       /\ ~WorkerStepped =>
            \A id \in finished_now :
                /\ id \in DOMAIN sound_instances'
                /\ (id \in get_playing_sounds => id \in get_playing_sounds')]_vars

\* The channel is empty and an instance whose sinks have all drained is still
\* in the table and among the playing sounds.
C27_Witness ==
    /\ queue = << >>
    /\ worker = "running"
    /\ \E id \in finished_now : id \in get_playing_sounds

\* C21: the loopback ring buffer never grows beyond its initial capacity, for
\* every capture batch size (batches above the eviction chunk included) and
\* every interleaving of capture and render callbacks, a stalled render side
\* included; and the eviction never asks to remove more samples than the
\* buffer holds.
C21_RingNeverExceedsCapacity ==
    loopback.built =>
        /\ Len(loopback.buffer) <= with_capacity(SampleRate, loopback.input_channels)
        /\ ~loopback.panicked
        /\ loopback.last = "capture" => loopback.drained <= Len(loopback.before)

\* C28: with capture batches of whole input frames, the ring buffer holds a
\* whole number of input frames (its length is a multiple of the input channel
\* count) after every capture eviction and every render pop, for every input
\* channel count, so the sample a render frame reads at position c was
\* captured on input channel c.
C28_RingHoldsWholeFrames ==
    loopback.built =>
        /\ Len(loopback.buffer) % loopback.input_channels = 0
        /\ loopback.last = "render" =>
              \A f \in 1..loopback.frames : \A c \in 1..loopback.input_channels :
                  LET i == (f - 1) * loopback.input_channels + c IN
                  i <= Len(loopback.before) => loopback.before[i].ch = c

\* C22: for every input and output channel count the render step pops one
\* input frame (in_ch samples, zero-filled on underrun) per output frame and
\* writes: the same samples when in_ch = out_ch; the single input sample on
\* every output channel when in_ch = 1; the average of all input channels when
\* out_ch = 1; otherwise input channel c for c < in_ch and the average of the
\* first two input channels on every remaining output channel; each scaled by
\* the gain and clamped to [-1, 1].
C22_RenderMapsChannels ==
    loopback.last = "render" =>
        LET in_ch == loopback.input_channels
            out_ch == loopback.output_channels
            held == Len(loopback.before)
            one == SampleOne * FullGain * FullGain
            input(f, c) == IF (f - 1) * in_ch + c <= held
                           THEN loopback.before[(f - 1) * in_ch + c].v
                           ELSE 0
            mapped(f, c) ==
                IF in_ch = out_ch THEN input(f, c)
                ELSE IF in_ch = 1 THEN input(f, 1)
                ELSE IF out_ch = 1 THEN sum([k \in 1..in_ch |-> input(f, k)]) \div in_ch
                ELSE IF c <= in_ch THEN input(f, c)
                ELSE (input(f, 1) + input(f, 2)) \div 2
            expected(f, c) ==
                LET x == mapped(f, c) * loopback.vol IN
                IF x > one THEN one ELSE IF x < -one THEN -one ELSE x
        IN  /\ Len(loopback.data) = loopback.frames * out_ch
            /\ \A f \in 1..loopback.frames : \A c \in 1..out_ch :
                  loopback.data[(f - 1) * out_ch + c] = expected(f, c)
            /\ loopback.buffer =
                  SubSeq(loopback.before, Min(loopback.frames * in_ch, held) + 1, held)

\* A frame of three input channels rendered on four output channels at full
\* gain: the first sample as it is, the second clamped, the fourth the average
\* of the first two; the second frame asked for is zero-filled.
C22_Witness ==
    /\ loopback.last = "render"
    /\ loopback.input_channels = 3
    /\ loopback.output_channels = 4
    /\ loopback.vol = FullGain * FullGain
    /\ loopback.data = <<24, -24, 0, -12, 0, 0, 0, 0>>

\* C23: the open of a decoder (here at offset 0) succeeds exactly when some
\* packet of the selected track decodes into a supported buffer before the
\* container reaches its end or an I/O error, packets of other tracks and
\* undecodable packets before it being skipped; on success the first decoded
\* buffer is already queued, on failure no decoder is returned.
C23_OpenFailsOnlyWithoutDecodablePacket ==
    (decoder.state # "none" /\ decoder.start_position = 0) =>
        LET q == decoder.file.packets
            decodable == \E i \in 1..Len(q) :
                            /\ q[i] = "audio"
                            /\ \A j \in 1..(i - 1) : q[j] # "ioerror"
        IN  /\ decoder.state = "failed" <=> ~decodable
            /\ (decoder.state = "open" /\ decoder.yielded = << >>) =>
                  Len(decoder.sample_buffer) = FramesPerPacket * decoder.file.channels
            /\ decoder.state = "failed" => decoder.sample_buffer = << >>

\* C24: for every start offset s > 0, fractional ones included, the open seeks
\* the container to exactly s before the first decode: the time of the first
\* produced sample, the cursor's starting timestamp (s x sample_rate) and the
\* start offset of the position record (s itself) are the same instant.
C24_SeekLandsOnStartOffset ==
    (/\ decoder.state = "open"
     /\ decoder.start_position > 0
     /\ decoder.yielded = << >>)
    => /\ decoder.current_ts * PositionUnit = decoder.start_position * TrackRate
       /\ Head(decoder.sample_buffer).frame * PositionUnit
             = decoder.start_position * TrackRate

\* C25: a track of known total frame count F and C channels, all of whose
\* packets decode, opened at offset 0 yields all F x C interleaved samples
\* before next signals the end at the frame-count boundary, for every C >= 1.
C25_AllSamplesBeforeEnd ==
    (/\ decoder.state = "ended"
     /\ decoder.start_position = 0
     /\ Len(decoder.end_ts) = 1
     /\ \A i \in 1..Len(decoder.file.packets) : decoder.file.packets[i] = "audio")
    => /\ Len(decoder.yielded) = decoder.end_ts[1] * decoder.file.channels
       /\ \A k \in 1..Len(decoder.yielded) :
             decoder.yielded[k] = [frame |-> (k - 1) \div decoder.file.channels,
                                   ch |-> ((k - 1) % decoder.file.channels) + 1]

\* C29: HotkeyManager never deadlocks: handle_event on the listener thread
\* together with remove_binding or update_binding on another thread always
\* lets both calls complete, the bindings mutex and the key_map mutex never
\* being held by two threads in opposite acquisition order.
C29_NoLockOrderInversion ==
    ~\E t1, t2 \in HotkeyThreads :
        /\ t1 # t2
        /\ wanted_lock(hotkeys.threads[t1]) # ""
        /\ wanted_lock(hotkeys.threads[t2]) # ""
        /\ lock_holder(hotkeys, wanted_lock(hotkeys.threads[t1])) = t2
        /\ lock_holder(hotkeys, wanted_lock(hotkeys.threads[t2])) = t1

\* C30: after any sequence of add_binding, remove_binding and update_binding
\* calls, key_map holds exactly one entry per binding, from the binding's
\* current (key, modifiers) to its id: no entry for a removed binding or for a
\* combination its binding no longer uses, and every binding reachable.
C30_KeyMapMatchesBindings ==
    hotkeys.threads["ui"].pc = "idle" =>
        /\ \A id \in DOMAIN hotkeys.bindings :
              /\ hotkeys.bindings[id] \in DOMAIN hotkeys.key_map
              /\ hotkeys.key_map[hotkeys.bindings[id]] = id
        /\ \A combo \in DOMAIN hotkeys.key_map :
              /\ hotkeys.key_map[combo] \in DOMAIN hotkeys.bindings
              /\ hotkeys.bindings[hotkeys.key_map[combo]] = combo
====
